---- MODULE Spec2Model ----
(***************************************************************************)
(* RLDojo: the controller hotkey manager                                   *)
(* (Dojo/input_management/controller_hotkey_manager.py) and the playlist   *)
(* edit game mode (Dojo/game_modes/playlist_edit_mode.py).                 *)
(*                                                                         *)
(* Three threads touch a ControllerHotkeyManager:                          *)
(*   - the polling thread (_run / _process_events and the handlers),       *)
(*   - a caller thread that registers hotkeys and calls wait_for_rebind,   *)
(*   - a thread that calls cancel_rebind.                                  *)
(* Every "with self.rebind_lock:" block is one atomic action: the blocks   *)
(* exclude each other and none of them blocks inside.  threading.Event is  *)
(* its flag: set() and clear() write it, wait() returns True once it is    *)
(* set and False when the timeout elapses first.  start() is called once.   *)
(* _update_input_state and the debug drawing only read the joysticks and   *)
(* write keys_pressed, dpad_pressed and the screen; they are left out.     *)
(***************************************************************************)
EXTENDS Integers, Sequences, FiniteSets, TLC

\* ---------------------------------------------------------------- bounds
\* Cars in a GameTickPacket.
MaxCars == 2

\* Python's None.
None == "None"

\* ------------------------------------------------------- inputs (small sets)
InstanceIds == {0, 1}
ButtonIndexes == {0, 12}
HatValues == {<<0, 0>>, <<0, 1>>}
\* register_hotkey's arguments: <<hotkey, callback>>
Registrations == {<<"A", "cb1">>, <<"D-Up", "cb2">>}
Timeouts == {None, "finite"}

\* ----------------------------------------------------------- pure functions
\* ControllerHotkeyManager.BUTTON_NAMES
BUTTON_NAMES ==
  [i \in 0..11 |->
     CASE i = 0 -> "A"     [] i = 1 -> "B"      [] i = 2 -> "X"
       [] i = 3 -> "Y"     [] i = 4 -> "LB"     [] i = 5 -> "RB"
       [] i = 6 -> "Back"  [] i = 7 -> "Start"  [] i = 8 -> "LS"
       [] i = 9 -> "RS"    [] i = 10 -> "Guide" [] i = 11 -> "Misc1"]

\* ControllerHotkeyManager.HAT_NAMES
HAT_NAMES ==
  [pos \in {-1, 0, 1} \X {-1, 0, 1} |->
     CASE pos = <<0, 1>> -> "D-Up"
       [] pos = <<0, -1>> -> "D-Down"
       [] pos = <<-1, 0>> -> "D-Left"
       [] pos = <<1, 0>> -> "D-Right"
       [] pos = <<-1, 1>> -> "D-Up-Left"
       [] pos = <<1, 1>> -> "D-Up-Right"
       [] pos = <<-1, -1>> -> "D-Down-Left"
       [] pos = <<1, -1>> -> "D-Down-Right"
       [] pos = <<0, 0>> -> None]

\* get_button_name(button_index, joystick): the joystick is not read
get_button_name(button_index, joystick) ==
  IF button_index \in DOMAIN BUTTON_NAMES
    THEN BUTTON_NAMES[button_index]
    ELSE "Button " \o ToString(button_index)

\* get_hat_name(hat_position): self.HAT_NAMES.get(hat_position, None)
get_hat_name(hat_position) ==
  IF hat_position \in DOMAIN HAT_NAMES THEN HAT_NAMES[hat_position] ELSE None

\* ------------------------------------------------------------------ state
VARIABLES
  running,        \* self.running
  started,        \* self.thread is not None
  hotkeys,        \* self.hotkeys: name -> callback
  joysticks,      \* the keys of self.joysticks
  rebind_mode,    \* self.rebind_mode
  rebind_result,  \* self.rebind_result
  rebind_event,   \* the flag of self.rebind_event
  pollPc,         \* polling thread: off, poll, dispatch, bd_lock, bd_hotkey,
                  \*   hat_lock, in_callback, crashed, stopped
  ev,             \* the event the polling thread is handling
  callback,       \* the hotkey callback the polling thread is running
  wPc,            \* caller thread: idle, wait, final, returned, join
  wTimeout,       \* wait_for_rebind's timeout argument
  button_detected,\* wait_for_rebind's local
  ret,            \* what wait_for_rebind returned
  cPc,            \* cancelling thread: idle, set
  g,              \* history of the wait_for_rebind call in progress
  current_packet, \* PlaylistEditMode.current_packet
  out             \* what get_current_game_state returned since the last update

hkVars == <<running, started, hotkeys, joysticks, rebind_mode, rebind_result,
            rebind_event, pollPc, ev, callback, wPc, wTimeout, button_detected,
            ret, cPc, g>>
editVars == <<current_packet, out>>
vars == <<hkVars, editVars>>

NoEvent == [type |-> "none", id |-> 0, button |-> 0, value |-> <<0, 0>>,
            name |-> None, stored |-> FALSE]
\* first: the name of the first button-down or named D-pad event whose handler
\* ran its locked check during the call; capt: a handler stored rebind_result
\* during the call; cancel: cancel_rebind's locked block ran during the call;
\* btnBlocked: a button-down's locked check ran while the call was inside
\* rebind_event.wait.
NoCall == [first |-> None, capt |-> FALSE, cancel |-> FALSE, btnBlocked |-> FALSE]
\* current_packet before the first update: Optional['GameTickPacket'] = None
NoPacket == [none |-> TRUE]

\* ControllerHotkeyManager.__init__ and PlaylistEditMode.__init__
Init ==
  /\ running = FALSE
  /\ started = FALSE
  /\ hotkeys = <<>>
  /\ joysticks = {}
  /\ rebind_mode = FALSE
  /\ rebind_result = None
  /\ rebind_event = FALSE
  /\ pollPc = "off"
  /\ ev = NoEvent
  /\ callback = None
  /\ wPc = "idle"
  /\ wTimeout = None
  /\ button_detected = FALSE
  /\ ret = None
  /\ cPc = "idle"
  /\ g = NoCall
  /\ current_packet = NoPacket
  /\ out = <<>>

\* ------------------------------------------------------ the polling thread
\* start(): running = True, the thread runs _run
Start ==
  /\ ~started
  /\ started' = TRUE
  /\ running' = TRUE
  /\ pollPc' = "poll"
  /\ UNCHANGED <<hotkeys, joysticks, rebind_mode, rebind_result, rebind_event, ev,
                 callback, wPc, wTimeout, button_detected, ret, cPc, g,
                 editVars>>

\* The events pygame.event.get() can deliver.
Events ==
  {[NoEvent EXCEPT !.type = "QUIT"]}
  \cup {[NoEvent EXCEPT !.type = t, !.id = i, !.button = b] :
          t \in {"JOYBUTTONDOWN", "JOYBUTTONUP"}, i \in InstanceIds, b \in ButtonIndexes}
  \cup {[NoEvent EXCEPT !.type = "JOYHATMOTION", !.value = v] : v \in HatValues}
  \cup {[NoEvent EXCEPT !.type = t, !.id = i] :
          t \in {"JOYDEVICEADDED", "JOYDEVICEREMOVED"}, i \in InstanceIds}

\* _process_events: the for loop takes the next event of pygame.event.get()
NextEvent ==
  /\ pollPc = "poll"
  /\ \E e \in Events : ev' = e
  /\ pollPc' = "dispatch"
  /\ UNCHANGED <<running, started, hotkeys, joysticks, rebind_mode, rebind_result,
                 rebind_event, callback, wPc, wTimeout, button_detected, ret, cPc, g, editVars>>

\* _run: "while self.running" is read between two batches of events
LoopExit ==
  /\ pollPc = "poll"
  /\ ~running
  /\ pollPc' = "stopped"
  /\ UNCHANGED <<running, started, hotkeys, joysticks, rebind_mode, rebind_result,
                 rebind_event, ev, callback, wPc, wTimeout, button_detected, ret,
                 cPc, g, editVars>>

\* self.joysticks[event.instance_id] (and del ...) raises KeyError for a missing
\* key.
KeyError(e) ==
  /\ e.type \in {"JOYBUTTONDOWN", "JOYBUTTONUP", "JOYDEVICEREMOVED"}
  /\ e.id \notin joysticks

\* event.type == pygame.QUIT
HandleQuit ==
  /\ pollPc = "dispatch"
  /\ ev.type = "QUIT"
  /\ running' = FALSE
  /\ pollPc' = "poll"
  /\ ev' = NoEvent
  /\ UNCHANGED <<started, hotkeys, joysticks, rebind_mode, rebind_result,
                 rebind_event, callback, wPc, wTimeout, button_detected, ret, cPc, g, editVars>>

\* Mutant of HandleRaises: the KeyError is caught and the event skipped.
HandleRaises_Swallowed ==
  /\ pollPc = "dispatch"
  /\ KeyError(ev)
  /\ pollPc' = "poll"
  /\ ev' = NoEvent
  /\ UNCHANGED <<running, started, hotkeys, joysticks, rebind_mode, rebind_result,
                 rebind_event, callback, wPc, wTimeout, button_detected, ret,
                 cPc, g, editVars>>

\* Nothing in _process_events or _run catches the KeyError: the thread ends.
HandleRaises ==
  /\ pollPc = "dispatch"
  /\ KeyError(ev)
  /\ pollPc' = "crashed"
  /\ UNCHANGED <<running, started, hotkeys, joysticks, rebind_mode, rebind_result,
                 rebind_event, ev, callback, wPc, wTimeout, button_detected, ret,
                 cPc, g, editVars>>

\* _handle_button_down, up to the lock: the joystick lookup and the name
HandleButtonDown ==
  /\ pollPc = "dispatch"
  /\ ev.type = "JOYBUTTONDOWN"
  /\ ~KeyError(ev)
  /\ ev' = [ev EXCEPT !.name = get_button_name(ev.button, ev.id)]
  /\ pollPc' = "bd_lock"
  /\ UNCHANGED <<running, started, hotkeys, joysticks, rebind_mode, rebind_result,
                 rebind_event, callback, wPc, wTimeout, button_detected, ret, cPc, g, editVars>>

\* History of the wait_for_rebind call in progress, written when a handler's
\* locked check runs between the call's two locked blocks.
NoteHandled(name, isButton, stores) ==
  IF wPc \in {"wait", "final"}
    THEN g' = [g EXCEPT !.first = IF @ = None THEN name ELSE @,
                        !.capt = @ \/ stores,
                        !.btnBlocked = @ \/ (isButton /\ wPc = "wait")]
    ELSE g' = g

\* Mutant of Capture: the result is stored and rebind_event.set() is left out.
Capture_NoSet(name) ==
  IF rebind_mode
    THEN /\ rebind_result' = name
         /\ UNCHANGED rebind_event
    ELSE UNCHANGED <<rebind_result, rebind_event>>

\* "if self.rebind_mode: self.rebind_result = name; self.rebind_event.set()"
Capture(name) ==
  IF rebind_mode
    THEN /\ rebind_result' = name
         /\ rebind_event' = TRUE
    ELSE UNCHANGED <<rebind_result, rebind_event>>

\* Mutant of ButtonCaptureReturns: the "return" after rebind_event.set() is
\* missing and the handler goes on to the hotkeys.
ButtonCaptureReturns_Never == FALSE

\* Whether _handle_button_down returns inside its locked block.
ButtonCaptureReturns == rebind_mode

\* _handle_button_down: "with self.rebind_lock: if self.rebind_mode: ... return"
HandleButtonDownLocked ==
  /\ pollPc = "bd_lock"
  /\ Capture(ev.name)
  /\ NoteHandled(ev.name, TRUE, rebind_mode)
  /\ IF ButtonCaptureReturns
       THEN pollPc' = "poll" /\ ev' = NoEvent
       ELSE pollPc' = "bd_hotkey" /\ ev' = [ev EXCEPT !.stored = rebind_mode]
  /\ UNCHANGED <<running, started, hotkeys, joysticks, rebind_mode, callback, wPc,
                 wTimeout, button_detected, ret, cPc, editVars>>

\* _handle_button_down: "if button_name in self.hotkeys: self.hotkeys[button_name]()"
HandleButtonDownHotkey ==
  /\ pollPc = "bd_hotkey"
  /\ IF ev.name \in DOMAIN hotkeys
       THEN /\ callback' = hotkeys[ev.name]
            /\ pollPc' = "in_callback"
            /\ ev' = ev
       ELSE /\ callback' = callback
            /\ pollPc' = "poll"
            /\ ev' = NoEvent
  /\ UNCHANGED <<running, started, hotkeys, joysticks, rebind_mode, rebind_result,
                 rebind_event, wPc, wTimeout, button_detected, ret, cPc,
                 g, editVars>>

\* The callback returns, and with it the handler.
CallbackReturns ==
  /\ pollPc = "in_callback"
  /\ callback' = None
  /\ pollPc' = "poll"
  /\ ev' = NoEvent
  /\ UNCHANGED <<running, started, hotkeys, joysticks, rebind_mode, rebind_result,
                 rebind_event, wPc, wTimeout, button_detected, ret, cPc,
                 g, editVars>>

\* _handle_button_up: the joystick lookup, the name, a print
HandleButtonUp ==
  /\ pollPc = "dispatch"
  /\ ev.type = "JOYBUTTONUP"
  /\ ~KeyError(ev)
  /\ pollPc' = "poll"
  /\ ev' = NoEvent
  /\ UNCHANGED <<running, started, hotkeys, joysticks, rebind_mode, rebind_result,
                 rebind_event, callback, wPc, wTimeout, button_detected, ret, cPc, g, editVars>>

\* _handle_hat_motion, up to the lock: "hat_name = ...; if hat_name:"
HandleHatMotion ==
  /\ pollPc = "dispatch"
  /\ ev.type = "JOYHATMOTION"
  /\ IF get_hat_name(ev.value) # None
       THEN /\ ev' = [ev EXCEPT !.name = get_hat_name(ev.value)]
            /\ pollPc' = "hat_lock"
       ELSE /\ ev' = NoEvent
            /\ pollPc' = "poll"
  /\ UNCHANGED <<running, started, hotkeys, joysticks, rebind_mode, rebind_result,
                 rebind_event, callback, wPc, wTimeout, button_detected, ret, cPc, g, editVars>>

\* _handle_hat_motion: "with self.rebind_lock: if self.rebind_mode: ... return";
\* nothing follows the block, so the handler ends either way.
HandleHatMotionLocked ==
  /\ pollPc = "hat_lock"
  /\ Capture(ev.name)
  /\ NoteHandled(ev.name, FALSE, rebind_mode)
  /\ pollPc' = "poll"
  /\ ev' = NoEvent
  /\ UNCHANGED <<running, started, hotkeys, joysticks, rebind_mode, callback, wPc,
                 wTimeout, button_detected, ret, cPc, editVars>>

\* _handle_device_added: self.joysticks[joy.get_instance_id()] = joy
HandleDeviceAdded ==
  /\ pollPc = "dispatch"
  /\ ev.type = "JOYDEVICEADDED"
  /\ joysticks' = joysticks \cup {ev.id}
  /\ pollPc' = "poll"
  /\ ev' = NoEvent
  /\ UNCHANGED <<running, started, hotkeys, rebind_mode, rebind_result,
                 rebind_event, callback, wPc, wTimeout, button_detected, ret, cPc, g, editVars>>

\* _handle_device_removed: del self.joysticks[event.instance_id]
HandleDeviceRemoved ==
  /\ pollPc = "dispatch"
  /\ ev.type = "JOYDEVICEREMOVED"
  /\ ~KeyError(ev)
  /\ joysticks' = joysticks \ {ev.id}
  /\ pollPc' = "poll"
  /\ ev' = NoEvent
  /\ UNCHANGED <<running, started, hotkeys, rebind_mode, rebind_result,
                 rebind_event, callback, wPc, wTimeout, button_detected, ret, cPc, g, editVars>>

\* ------------------------------------------------------- the caller thread
\* register_hotkey(hotkey, callback): self.hotkeys[hotkey] = callback
RegisterHotkey ==
  /\ wPc = "idle"
  /\ \E r \in Registrations :
       hotkeys' = [n \in DOMAIN hotkeys \cup {r[1]} |->
                     IF n = r[1] THEN r[2] ELSE hotkeys[n]]
  /\ UNCHANGED <<running, started, joysticks, rebind_mode, rebind_result,
                 rebind_event, pollPc, ev, callback, wPc, wTimeout, button_detected,
                 ret, cPc, g, editVars>>

\* stop(): self.running = False, then self.thread.join()
Stop ==
  /\ wPc = "idle"
  /\ started
  /\ running' = FALSE
  /\ wPc' = "join"
  /\ UNCHANGED <<started, hotkeys, joysticks, rebind_mode, rebind_result,
                 rebind_event, pollPc, ev, callback, wTimeout, button_detected,
                 ret, cPc, g, editVars>>

\* self.thread.join() returns once _run has ended
JoinReturns ==
  /\ wPc = "join"
  /\ pollPc \in {"stopped", "crashed"}
  /\ wPc' = "idle"
  /\ UNCHANGED <<running, started, hotkeys, joysticks, rebind_mode, rebind_result,
                 rebind_event, pollPc, ev, callback, wTimeout, button_detected,
                 ret, cPc, g, editVars>>

\* wait_for_rebind, first locked block: rebind_mode = True, rebind_result = None,
\* rebind_event.clear()
WaitForRebindEnter ==
  /\ wPc = "idle"
  /\ \E t \in Timeouts : wTimeout' = t
  /\ rebind_mode' = TRUE
  /\ rebind_result' = None
  /\ rebind_event' = FALSE
  /\ button_detected' = FALSE
  /\ g' = NoCall
  /\ wPc' = "wait"
  /\ UNCHANGED <<running, started, hotkeys, joysticks, pollPc, ev, callback, ret,
                 cPc, editVars>>

\* rebind_event.wait(timeout) returns True: the flag is set
EventWaitSignaled ==
  /\ wPc = "wait"
  /\ rebind_event
  /\ button_detected' = TRUE
  /\ wPc' = "final"
  /\ UNCHANGED <<running, started, hotkeys, joysticks, rebind_mode, rebind_result,
                 rebind_event, pollPc, ev, callback, wTimeout, ret, cPc,
                 g, editVars>>

\* rebind_event.wait(timeout) returns False: the timeout elapsed with the flag unset
EventWaitTimeout ==
  /\ wPc = "wait"
  /\ wTimeout # None
  /\ ~rebind_event
  /\ button_detected' = FALSE
  /\ wPc' = "final"
  /\ UNCHANGED <<running, started, hotkeys, joysticks, rebind_mode, rebind_result,
                 rebind_event, pollPc, ev, callback, wTimeout, ret, cPc,
                 g, editVars>>

\* Mutant of ReturnValue: "return result".
ReturnValue_IgnoresDetected(result, detected) == result

\* "return result if button_detected else None"
ReturnValue(result, detected) == IF detected THEN result ELSE None

\* wait_for_rebind, second locked block and the return: rebind_mode = False,
\* result = rebind_result, rebind_result = None
WaitForRebindFinal ==
  /\ wPc = "final"
  /\ rebind_mode' = FALSE
  /\ rebind_result' = None
  /\ ret' = ReturnValue(rebind_result, button_detected)
  /\ wPc' = "returned"
  /\ UNCHANGED <<running, started, hotkeys, joysticks, rebind_event, pollPc, ev,
                 callback, wTimeout, button_detected, cPc, g, editVars>>

\* The caller goes on with the returned name; the call's locals are gone.
CallerContinues ==
  /\ wPc = "returned"
  /\ wPc' = "idle"
  /\ ret' = None
  /\ g' = NoCall
  /\ wTimeout' = None
  /\ button_detected' = FALSE
  /\ UNCHANGED <<running, started, hotkeys, joysticks, rebind_mode, rebind_result,
                 rebind_event, pollPc, ev, callback, cPc, editVars>>

\* --------------------------------------------------- the cancelling thread
\* Mutant of CancelRebindReset: rebind_result is not reset.
CancelRebindReset_KeepsResult ==
  /\ cPc = "idle"
  /\ rebind_mode' = FALSE
  /\ g' = IF wPc \in {"wait", "final"} THEN [g EXCEPT !.cancel = TRUE] ELSE g
  /\ cPc' = "set"
  /\ UNCHANGED <<running, started, hotkeys, joysticks, rebind_result, rebind_event,
                 pollPc, ev, callback, wPc, wTimeout, button_detected, ret, editVars>>

\* cancel_rebind, the locked block: rebind_mode = False, rebind_result = None
CancelRebindReset ==
  /\ cPc = "idle"
  /\ rebind_mode' = FALSE
  /\ rebind_result' = None
  /\ g' = IF wPc \in {"wait", "final"} THEN [g EXCEPT !.cancel = TRUE] ELSE g
  /\ cPc' = "set"
  /\ UNCHANGED <<running, started, hotkeys, joysticks, rebind_event, pollPc, ev,
                 callback, wPc, wTimeout, button_detected, ret, editVars>>

\* cancel_rebind, after the lock: self.rebind_event.set()
CancelRebindSet ==
  /\ cPc = "set"
  /\ rebind_event' = TRUE
  /\ cPc' = "idle"
  /\ UNCHANGED <<running, started, hotkeys, joysticks, rebind_mode, rebind_result,
                 pollPc, ev, callback, wPc, wTimeout, button_detected, ret,
                 g, editVars>>

Next ==
  \/ Start
  \/ NextEvent
  \/ LoopExit
  \/ HandleQuit
  \/ HandleRaises
  \/ HandleButtonDown
  \/ HandleButtonDownLocked
  \/ HandleButtonDownHotkey
  \/ CallbackReturns
  \/ HandleButtonUp
  \/ HandleHatMotion
  \/ HandleHatMotionLocked
  \/ HandleDeviceAdded
  \/ HandleDeviceRemoved
  \/ RegisterHotkey
  \/ Stop
  \/ JoinReturns
  \/ WaitForRebindEnter
  \/ EventWaitSignaled
  \/ EventWaitTimeout
  \/ WaitForRebindFinal
  \/ CallerContinues
  \/ CancelRebindReset
  \/ CancelRebindSet

Spec == Init /\ [][Next]_vars

\* Scheduling: a thread that can run is eventually run.  The caller thread leaves
\* rebind_event.wait once the flag is set and then runs its second locked block;
\* the cancelling thread reaches its rebind_event.set().
Fairness ==
  /\ WF_vars(EventWaitSignaled)
  /\ WF_vars(WaitForRebindFinal)
  /\ WF_vars(CancelRebindSet)

FairSpec == Init /\ [][Next]_vars /\ Fairness

\* ------------------------------------------------------ PlaylistEditMode
\* The game_cars entries (PlayerInfo) and ball physics a packet is built from.
\* team stands for the PlayerInfo fields get_current_game_state does not read.
CarPool ==
  {[physics |-> "carA", boost |-> 0, jumped |-> FALSE, double_jumped |-> FALSE, team |-> 0],
   [physics |-> "carB", boost |-> 33, jumped |-> TRUE, double_jumped |-> FALSE, team |-> 1],
   [physics |-> "carC", boost |-> 100, jumped |-> TRUE, double_jumped |-> TRUE, team |-> 0]}
BallPool == {"ballA", "ballB", "ballC"}
Packets ==
  {[game_cars |-> cs, game_ball |-> [physics |-> b]] :
     cs \in UNION {[1..n -> CarPool] : n \in 0..MaxCars}, b \in BallPool}

\* CarState(physics=..., boost_amount=..., jumped=..., double_jumped=...)
CarState(player_info) ==
  [physics |-> player_info.physics, boost_amount |-> player_info.boost,
   jumped |-> player_info.jumped, double_jumped |-> player_info.double_jumped]

\* Mutant of CarKey: the cars are counted from 1.
CarKey_FromOne(pos) == pos

\* The key car_states gets for the car at position pos (from 1) of game_cars:
\* enumerate counts from 0.
CarKey(pos) == pos - 1

\* get_current_game_state: GameState(ball=BallState(physics=...), cars=car_states)
get_current_game_state(packet) ==
  [ball |-> [physics |-> packet.game_ball.physics],
   cars |-> [i \in {CarKey(pos) : pos \in 1..Len(packet.game_cars)} |->
               CarState(packet.game_cars[CHOOSE pos \in 1..Len(packet.game_cars) :
                                           CarKey(pos) = i])]]

\* update(packet): self.current_packet = packet
Update ==
  /\ \E packet \in Packets : current_packet' = packet
  /\ out' = <<>>
  /\ UNCHANGED hkVars

\* get_current_game_state() with a packet; out keeps the last two returns
GetCurrentGameState ==
  /\ current_packet # NoPacket
  /\ out' = IF Len(out) < 2
              THEN Append(out, get_current_game_state(current_packet))
              ELSE <<out[2], get_current_game_state(current_packet)>>
  /\ UNCHANGED <<current_packet, hkVars>>

\* get_current_game_state() before any update: None has no game_cars
GetCurrentGameStateRaises ==
  /\ current_packet = NoPacket
  /\ out' = <<[raised |-> "AttributeError"]>>
  /\ UNCHANGED <<current_packet, hkVars>>

NextEdit ==
  \/ Update
  \/ GetCurrentGameState
  \/ GetCurrentGameStateRaises

SpecEdit == Init /\ [][NextEdit]_vars

\* ------------------------------------------------------------------ claims

\* C1, as stated: a wait_for_rebind call that was blocked in rebind_event.wait
\* while the polling thread handled a button-down of a connected joystick returns
\* a button name, never None.
C1_AsStated == (wPc = "returned" /\ g.btnBlocked) => ret # None

\* C1, amended: such a call eventually returns, and it returns a button name
\* unless cancel_rebind's locked block ran during the call.
C1_RebindHandOff ==
  /\ []((wPc = "returned" /\ g.btnBlocked /\ ~g.cancel) => ret # None)
  /\ ((wPc = "wait" /\ g.btnBlocked) ~> (wPc = "returned"))

\* A call with no timeout returned the button pressed while it was blocked.
C1_Witness ==
  /\ wPc = "returned" /\ wTimeout = None
  /\ g.btnBlocked /\ ~g.cancel
  /\ ret = "Button 12"

\* C2, as stated: the name a successful wait_for_rebind returns is that of the
\* first button-down or named D-pad event handled after the call entered rebind
\* mode; a later event never replaces it.
C2_AsStated == (wPc = "returned" /\ ret # None) => ret = g.first

\* C3: a wait_for_rebind whose timeout elapsed returns None, also when an event
\* was captured between the timeout and the second locked block; what a call
\* returns was captured during that call, and nothing captured is left behind
\* for a later call.
C3_TimeoutReturnsNone ==
  /\ (wPc = "returned" /\ ~button_detected) => ret = None
  /\ (wPc = "returned" /\ ret # None) => g.capt
  /\ wPc \in {"returned", "idle"} => (rebind_result = None /\ ~rebind_mode)

\* A timed-out call returned None although an event was captured before its
\* second locked block.
C3_Witness ==
  /\ wPc = "returned" /\ wTimeout # None /\ ~button_detected
  /\ g.capt /\ ~g.cancel
  /\ ret = None

\* C4: a wait_for_rebind call that is blocked when cancel_rebind's locked block
\* runs eventually returns, and a call during which that block ran returns None,
\* also when a button had been captured before.
C4_CancelReturnsNone ==
  /\ []((wPc = "returned" /\ g.cancel) => ret = None)
  /\ ((wPc = "wait" /\ g.cancel) ~> (wPc = "returned"))

\* A call woken by a captured button, then cancelled, returned None.
C4_Witness ==
  /\ wPc = "returned" /\ wTimeout = None
  /\ g.cancel /\ g.capt /\ button_detected
  /\ ret = None

\* C5, as stated: a wait_for_rebind call with timeout=None returns only after an
\* event was captured or cancel_rebind ran during that same call.
C5_AsStated == (wPc = "returned" /\ wTimeout = None) => (g.capt \/ g.cancel)

\* C6, as stated: with rebind mode off, a button-down or named D-pad event whose
\* name has a registered callback invokes that callback, once, and no other.
C6_AsStated ==
  [][/\ ( /\ \/ pollPc = "bd_hotkey" /\ ~ev.stored
             \/ pollPc = "hat_lock" /\ ~rebind_mode
          /\ pollPc' # pollPc
          /\ ev.name \in DOMAIN hotkeys )
        => (pollPc' = "in_callback" /\ callback' = hotkeys[ev.name])
     /\ (pollPc = "in_callback" /\ pollPc' # pollPc) => pollPc' = "poll"
    ]_vars

\* C7: a JOYBUTTONDOWN, JOYBUTTONUP or JOYDEVICEREMOVED event whose instance_id
\* is no key of joysticks ends the polling thread for good, and its handler
\* leaves joysticks, rebind_mode and rebind_result as they were.
C7_UnknownJoystickRaises ==
  [][/\ ( /\ pollPc = "dispatch" /\ pollPc' # pollPc
          /\ ev.type \in {"JOYBUTTONDOWN", "JOYBUTTONUP", "JOYDEVICEREMOVED"}
          /\ ev.id \notin joysticks )
        => (pollPc' = "crashed"
            /\ UNCHANGED <<joysticks, rebind_mode, rebind_result>>)
     /\ pollPc = "crashed" => pollPc' = "crashed"
    ]_vars

\* The polling thread died on a button-up of joystick 1 while only joystick 0
\* was connected and a rebind was waiting.
C7_Witness ==
  /\ pollPc = "crashed"
  /\ ev.type = "JOYBUTTONUP" /\ ev.id = 1
  /\ joysticks = {0}
  /\ rebind_mode

\* C8: every state get_current_game_state returned since the last update is built
\* from the packet of that update: one car per game_cars entry, keyed 0..n-1 in
\* packet order, with that car's physics, boost, jumped and double_jumped, and the
\* ball's physics; two calls with no update in between return equal states.
C8_StateOfLastPacket ==
  current_packet # NoPacket =>
    /\ \A k \in DOMAIN out :
         /\ DOMAIN out[k] = {"ball", "cars"}
         /\ out[k].ball = [physics |-> current_packet.game_ball.physics]
         /\ DOMAIN out[k].cars = 0..(Len(current_packet.game_cars) - 1)
         /\ \A i \in DOMAIN out[k].cars :
              LET car == out[k].cars[i]
                  info == current_packet.game_cars[i + 1]
              IN /\ DOMAIN car = {"physics", "boost_amount", "jumped", "double_jumped"}
                 /\ car.physics = info.physics
                 /\ car.boost_amount = info.boost
                 /\ car.jumped = info.jumped
                 /\ car.double_jumped = info.double_jumped
    /\ Len(out) = 2 => out[1] = out[2]

\* Two calls after an update with two different cars.
C8_Witness ==
  /\ current_packet # NoPacket
  /\ Len(out) = 2
  /\ Len(current_packet.game_cars) = 2
  /\ current_packet.game_cars[1] # current_packet.game_cars[2]

\* C9: a button-down whose locked check finds rebind_mode set is stored as
\* rebind_result and ends the handler without a callback; no button-down both
\* stores rebind_result and has a callback run.
C9_CaptureSuppressesHotkey ==
  [][/\ (pollPc = "bd_lock" /\ pollPc' # pollPc /\ rebind_mode)
        => (rebind_result' = ev.name /\ pollPc' = "poll" /\ callback' = None)
     /\ pollPc' = "in_callback" => ~ev'.stored
    ]_vars

\* A button with a registered hotkey was captured, and no callback runs.
C9_Witness ==
  /\ rebind_result = "A"
  /\ "A" \in DOMAIN hotkeys
  /\ pollPc = "poll"
  /\ callback = None

====
